---------------------------- MODULE Spec2Model ----------------------------
(***************************************************************************)
(* Masquerade (msq) snap: the identity protocol handlers over the single   *)
(* encrypted state blob.  Every handler is an async function: it loads the *)
(* state (StateManager.make), runs synchronous code up to its next await   *)
(* (consent dialog, entropy request, persist) and resumes later, so the    *)
(* steps of overlapping requests interleave at the awaits.                 *)
(***************************************************************************)
EXTENDS Integers, Sequences, FiniteSets, TLC

\* ------------------------------------------------------------- bounds
MaxIdentities == 2      \* addIdentity requests accepted per origin
MaxStats == 4           \* usage counter values (plus overlaps) explored
MaxOverlaps == 1        \* requests delivered while another one is in flight

\* ------------------------------------------------------------- values
\* undefined, where a string (an origin, a key of a request body) is expected
Undefined == "undefined"

\* undefined, where a session object is expected
NoSession == [undefined |-> TRUE]

\* process.env.MSQ_SNAP_SITE_ORIGIN
MSQ_SNAP_SITE_ORIGIN == "https://msq"

\* ZOrigin: the website origins used as inputs
Origins == {MSQ_SNAP_SITE_ORIGIN, "https://a"}

Slots == {1, 2}

\* the identity ids a login request may carry
IdentityIds == {0, 1}

\* new Date().getTime(): no handler reads a stored timestamp, so one value
\* stands for every clock reading
Timestamps == {1}

\* the custom salts a sign or get-public-key request may carry
Salts == {Undefined}

Contains(s, x) == \E i \in 1..Len(s) : s[i] = x

Without(s, x) == SelectSeq(s, LAMBDA y : y # x)

\* ------------------------------------------------------------- data
\* ZSession
Session(identityId, deriviationOrigin, timestampMs) ==
    [identityId |-> identityId,
     deriviationOrigin |-> deriviationOrigin,
     timestampMs |-> timestampMs]

\* the default origin data: no masks, no links, no session
makeDefaultOriginData ==
    [identitiesTotal |-> 0, linksFrom |-> <<>>, linksTo |-> <<>>,
     currentSession |-> NoSession]

\* the default state: no origin was ever seen
makeDefaultState ==
    [originData |-> <<>>, stats |-> 0]

\* ------------------------------------------------------- StateManager
\* state.originData is a record keyed by origin: its DOMAIN are the origins
\* that have an entry
getOriginData(state, origin) ==
    IF origin \in DOMAIN state.originData
    THEN state.originData[origin]
    ELSE makeDefaultOriginData

setOriginData(state, origin, data) ==
    [state EXCEPT !.originData =
        [o \in (DOMAIN @) \cup {origin} |-> IF o = origin THEN data ELSE @[o]]]

addIdentity(state, origin) ==
    setOriginData(state, origin,
        [getOriginData(state, origin) EXCEPT !.identitiesTotal = @ + 1])

linkExists(state, from, to) ==
    Contains(getOriginData(state, from).linksTo, to)

\* link, had it recorded the edge on the grantor's side only
link_oneSide(state, from, to) ==
    IF from = to \/ linkExists(state, from, to)
    THEN state
    ELSE setOriginData(state, from,
            [getOriginData(state, from) EXCEPT !.linksTo = Append(@, to)])

link(state, from, to) ==
    IF from = to \/ linkExists(state, from, to)
    THEN state
    ELSE LET s1 == setOriginData(state, from,
                     [getOriginData(state, from) EXCEPT
                         !.linksTo = Append(@, to)])
         IN setOriginData(s1, to,
                [getOriginData(s1, to) EXCEPT !.linksFrom = Append(@, from)])

unlink(state, from, to) ==
    LET s1 == IF from \in DOMAIN state.originData
              THEN [state EXCEPT !.originData[from].linksTo = Without(@, to)]
              ELSE state
    IN IF to \in DOMAIN s1.originData
       THEN [s1 EXCEPT !.originData[to].linksFrom = Without(@, from)]
       ELSE s1

incrementStats(state, origin) ==
    [state EXCEPT !.stats = @ + 1]

\* ------------------------------------------------------ key derivation
isMasquerade(origin) == origin = MSQ_SNAP_SITE_ORIGIN

\* the salt string, had the origin and the identity id been written with
\* nothing between them
entropySalt_unseparated(origin, identityId, internalSalt) ==
    "\nmasquerade-snap\n" \o origin \o ToString(identityId) \o "\n"
        \o internalSalt

\* the salt string of the entropy request: the template literal
\* `\x0amasquerade-snap\n${origin}\n${identityId}\n${internalSalt}`
entropySalt(origin, identityId, internalSalt) ==
    "\nmasquerade-snap\n" \o origin \o "\n" \o ToString(identityId) \o "\n"
        \o internalSalt

\* the entropy is a function of the salt string and of the custom salt
\* hashed with it (the host's entropy and SHA-256 taken as injective)
getEntropy(origin, identityId, internalSalt, customSalt) ==
    [salt |-> entropySalt(origin, identityId, internalSalt),
     customSalt |-> customSalt]

\* the key pair is a function of its secret key, the entropy
getSignIdentity(origin, identityId, salt) ==
    getEntropy(origin, identityId, "identity-sign\nshared", salt)

\* the principals of the masks 0 .. identitiesTotal - 1 of an origin
loginOptionsOf(manager, origin) ==
    [i \in 1..getOriginData(manager, origin).identitiesTotal |->
        getSignIdentity(origin, i - 1, Undefined)]

\* ------------------------------------------------------------- state
VARIABLES
    persisted,   \* the state blob held by the encrypted storage
    req,         \* per slot: the handler invocation in flight
    consented,   \* history: <<A, B>> of the link requests the user confirmed
    added,       \* history: per origin, the addIdentity requests that returned
    overlaps,    \* history: the requests delivered while another was in flight
    wearing      \* history: per origin, the derivation origin (the origin
                 \* itself, or one linked to it) named by the last login
                 \* that returned; undefined after a log out

vars == <<persisted, req, consented, added, overlaps, wearing>>

\* a handler that holds no StateManager
NoState == [undefined |-> TRUE]

Idle ==
    [pc |-> "idle", method |-> Undefined, origin |-> Undefined,
     other |-> Undefined, identityId |-> 0,
     state |-> NoState, result |-> Undefined, value |-> <<>>]

Init ==
    /\ persisted = makeDefaultState
    /\ req = [r \in Slots |-> Idle]
    /\ consented = {}
    /\ added = [o \in Origins |-> 0]
    /\ overlaps = 0
    /\ wearing = [o \in Origins |-> Undefined]


\* ------------------------------------------------------ request bodies
\* InternalSnapClient.login: the body the Masquerade site sends
login(toOrigin, withIdentityId, withDeriviationOrigin) ==
    [toOrigin |-> toOrigin,
     withLinkedOrigin |-> withDeriviationOrigin,
     withIdentityId |-> withIdentityId]

\* zodParse(ZIdentityLoginRequest, ..): a z.object keeps the keys of its shape
\* (toOrigin, withIdentityId, withDeriviationOrigin) and strips every other
\* key, so a stripped key reads as undefined in the handler
ZIdentityLoginRequest(wire) ==
    [toOrigin |-> wire.toOrigin,
     withIdentityId |-> wire.withIdentityId,
     withDeriviationOrigin |-> Undefined,
     withLinkedOrigin |-> Undefined]

\* ---------------------------------------------------- handler plumbing
\* a handler suspended at an await, holding its StateManager
Suspended(pc, method, origin, other, identityId, state) ==
    [pc |-> pc, method |-> method, origin |-> origin, other |-> other,
     identityId |-> identityId, state |-> state, result |-> Undefined,
     value |-> <<>>]

\* a handler that returned (result) or threw (an ErrorCode)
Done(method, origin, other, identityId, result) ==
    [pc |-> "done", method |-> method, origin |-> origin, other |-> other,
     identityId |-> identityId, state |-> NoState, result |-> result,
     value |-> <<>>]

\* a handler that returned a value other than a boolean: a key, or the login
\* options
Returned(method, origin, value) ==
    [pc |-> "done", method |-> method, origin |-> origin, other |-> Undefined,
     identityId |-> 0, state |-> NoState, result |-> "value", value |-> value]

InFlight(r) == req[r].pc \in {"dialog", "persist"}

\* a handler that returned or threw settles its promise, and the response
\* leaves in the same turn of the event loop: no other handler runs a step
\* between a handler's last step and its response
Responded == \A q \in Slots : req[q].pc # "done"

\* the host delivers a request: it takes the lowest free slot.  A run is cut
\* off by the usage counter; a delivery that overlapped a request in flight
\* counts against the same budget, since the stale state that request may
\* persist sets the counter back
CanStart(r) ==
    /\ Responded
    /\ req[r].pc = "idle"
    /\ \A q \in Slots : q < r => req[q].pc # "idle"
    /\ persisted.stats + overlaps < MaxStats
    /\ IF \E q \in Slots : InFlight(q)
       THEN overlaps < MaxOverlaps /\ overlaps' = overlaps + 1
       ELSE overlaps' = overlaps

\* StateManager.make(): the manager works on a copy of the stored blob
make == persisted

\* ----------------------------------------------------------- handlers
\* the add handler, had it logged the origin out as it added the mask
protected_handleIdentityAdd_logsOut(r, toOrigin) ==
    /\ CanStart(r)
    /\ getOriginData(persisted, toOrigin).identitiesTotal < MaxIdentities
    /\ added[toOrigin] < MaxIdentities
    /\ LET extended == addIdentity(make, toOrigin)
           manager == incrementStats(
                         setOriginData(extended, toOrigin,
                            [getOriginData(extended, toOrigin)
                                EXCEPT !.currentSession = NoSession]),
                         toOrigin)
       IN req' = [req EXCEPT ![r] =
                Suspended("persist", "add", toOrigin, Undefined, 0, manager)]
    /\ UNCHANGED <<persisted, consented, added, wearing>>

protected_handleIdentityAdd(r, toOrigin) ==
    /\ CanStart(r)
    /\ getOriginData(persisted, toOrigin).identitiesTotal < MaxIdentities
    /\ added[toOrigin] < MaxIdentities
    /\ LET manager == incrementStats(addIdentity(make, toOrigin), toOrigin)
       IN req' = [req EXCEPT ![r] =
                Suspended("persist", "add", toOrigin, Undefined, 0, manager)]
    /\ UNCHANGED <<persisted, consented, added, wearing>>

\* the login handler, had it taken the derivation origin as the client sent
\* it and left out the link check
protected_handleIdentityLogin_unchecked(r, wire, timestamp) ==
    /\ CanStart(r)
    /\ LET manager == make
           originData == getOriginData(manager, wire.toOrigin)
           session == Session(wire.withIdentityId, wire.withLinkedOrigin,
                              timestamp)
           updated == incrementStats(
                         setOriginData(manager, wire.toOrigin,
                            [originData EXCEPT !.currentSession = session]),
                         wire.toOrigin)
       IN req' = [req EXCEPT ![r] =
            IF originData.identitiesTotal = 0
            THEN Done("login", wire.toOrigin, wire.withLinkedOrigin,
                      wire.withIdentityId, "UNREACHEABLE")
            ELSE Suspended("persist", "login", wire.toOrigin,
                           wire.withLinkedOrigin, wire.withIdentityId, updated)]
    /\ UNCHANGED <<persisted, consented, added, wearing>>

\* the login handler, had it kept the session of an origin already logged in
protected_handleIdentityLogin_keepsSession(r, wire, timestamp) ==
    /\ CanStart(r)
    /\ LET body == ZIdentityLoginRequest(wire)
           manager == make
           originData == getOriginData(manager, body.toOrigin)
           session == IF originData.currentSession # NoSession
                      THEN originData.currentSession
                      ELSE Session(body.withIdentityId,
                              IF body.withLinkedOrigin # Undefined
                              THEN body.withLinkedOrigin ELSE body.toOrigin,
                              timestamp)
           updated == incrementStats(
                         setOriginData(manager, body.toOrigin,
                            [originData EXCEPT !.currentSession = session]),
                         body.toOrigin)
       IN req' = [req EXCEPT ![r] =
            IF /\ body.withLinkedOrigin # Undefined
               /\ body.withLinkedOrigin # body.toOrigin
               /\ ~linkExists(manager, body.withLinkedOrigin, body.toOrigin)
            THEN Done("login", wire.toOrigin, wire.withLinkedOrigin,
                      wire.withIdentityId, "UNAUTHORIZED")
            ELSE IF originData.identitiesTotal = 0
            THEN Done("login", wire.toOrigin, wire.withLinkedOrigin,
                      wire.withIdentityId, "UNREACHEABLE")
            ELSE Suspended("persist", "login", wire.toOrigin,
                           wire.withLinkedOrigin, wire.withIdentityId, updated)]
    /\ UNCHANGED <<persisted, consented, added, wearing>>

protected_handleIdentityLogin(r, wire, timestamp) ==
    /\ CanStart(r)
    /\ LET body == ZIdentityLoginRequest(wire)
           manager == make
           originData == getOriginData(manager, body.toOrigin)
           session == Session(body.withIdentityId,
                              IF body.withLinkedOrigin # Undefined
                              THEN body.withLinkedOrigin ELSE body.toOrigin,
                              timestamp)
           updated == incrementStats(
                         setOriginData(manager, body.toOrigin,
                            [originData EXCEPT !.currentSession = session]),
                         body.toOrigin)
       IN req' = [req EXCEPT ![r] =
            IF /\ body.withLinkedOrigin # Undefined
               /\ body.withLinkedOrigin # body.toOrigin
               /\ ~linkExists(manager, body.withLinkedOrigin, body.toOrigin)
            THEN Done("login", wire.toOrigin, wire.withLinkedOrigin,
                      wire.withIdentityId, "UNAUTHORIZED")
            ELSE IF originData.identitiesTotal = 0
            THEN Done("login", wire.toOrigin, wire.withLinkedOrigin,
                      wire.withIdentityId, "UNREACHEABLE")
            ELSE Suspended("persist", "login", wire.toOrigin,
                           wire.withLinkedOrigin, wire.withIdentityId, updated)]
    /\ UNCHANGED <<persisted, consented, added, wearing>>

\* the log out handler, had it cleared the session without asking the user
handleIdentityLogoutRequest_withoutAsking(r, origin) ==
    /\ CanStart(r)
    /\ LET manager == make
           originData == getOriginData(manager, origin)
           updated == incrementStats(
                         setOriginData(manager, origin,
                            [originData EXCEPT !.currentSession = NoSession]),
                         origin)
       IN req' = [req EXCEPT ![r] =
            IF originData.currentSession = NoSession
            THEN Done("logout", origin, Undefined, 0, "true")
            ELSE Suspended("persist", "logout", origin, Undefined, 0, updated)]
    /\ UNCHANGED <<persisted, consented, added, wearing>>

handleIdentityLogoutRequest(r, origin) ==
    /\ CanStart(r)
    /\ LET manager == make
           originData == getOriginData(manager, origin)
       IN req' = [req EXCEPT ![r] =
            IF originData.currentSession = NoSession
            THEN Done("logout", origin, Undefined, 0, "true")
            ELSE Suspended("dialog", "logout", origin, Undefined, 0, manager)]
    /\ UNCHANGED <<persisted, consented, added, wearing>>

\* the log out handler, had it cleared and persisted the session before it
\* looked at the user's answer
handleIdentityLogoutRequest_agreed_clearsFirst(r, agreed) ==
    /\ Responded
    /\ req[r].pc = "dialog"
    /\ req[r].method = "logout"
    /\ LET manager == req[r].state
           origin == req[r].origin
           originData == getOriginData(manager, origin)
           updated == incrementStats(
                         setOriginData(manager, origin,
                            [originData EXCEPT !.currentSession = NoSession]),
                         origin)
       IN /\ req' = [req EXCEPT ![r] =
                IF agreed = FALSE
                THEN Done("logout", origin, Undefined, 0, "false")
                ELSE Suspended("persist", "logout", origin, Undefined, 0,
                               updated)]
          /\ persisted' = IF agreed = FALSE THEN updated ELSE persisted
    /\ UNCHANGED <<consented, added, overlaps, wearing>>

\* the user answers the log out dialog
handleIdentityLogoutRequest_agreed(r, agreed) ==
    /\ Responded
    /\ req[r].pc = "dialog"
    /\ req[r].method = "logout"
    /\ LET manager == req[r].state
           origin == req[r].origin
           originData == getOriginData(manager, origin)
           updated == incrementStats(
                         setOriginData(manager, origin,
                            [originData EXCEPT !.currentSession = NoSession]),
                         origin)
       IN req' = [req EXCEPT ![r] =
            IF agreed = FALSE
            THEN Done("logout", origin, Undefined, 0, "false")
            ELSE Suspended("persist", "logout", origin, Undefined, 0, updated)]
    /\ UNCHANGED <<persisted, consented, added, overlaps, wearing>>

\* the link handler, had it left out the test for a link to itself
handleIdentityLinkRequest_selfLinkAllowed(r, origin, withOrigin) ==
    /\ CanStart(r)
    /\ LET manager == make
       IN req' = [req EXCEPT ![r] =
            IF linkExists(manager, origin, withOrigin)
            THEN Done("link", origin, withOrigin, 0, "true")
            ELSE Suspended("dialog", "link", origin, withOrigin, 0, manager)]
    /\ UNCHANGED <<persisted, consented, added, wearing>>

\* the link handler, had it prompted the user without looking for the link
handleIdentityLinkRequest_alwaysPrompts(r, origin, withOrigin) ==
    /\ CanStart(r)
    /\ LET manager == make
       IN req' = [req EXCEPT ![r] =
            IF origin = withOrigin
            THEN Done("link", origin, withOrigin, 0, "INVALID_INPUT")
            ELSE Suspended("dialog", "link", origin, withOrigin, 0, manager)]
    /\ UNCHANGED <<persisted, consented, added, wearing>>

handleIdentityLinkRequest(r, origin, withOrigin) ==
    /\ CanStart(r)
    /\ LET manager == make
       IN req' = [req EXCEPT ![r] =
            IF origin = withOrigin
            THEN Done("link", origin, withOrigin, 0, "INVALID_INPUT")
            ELSE IF linkExists(manager, origin, withOrigin)
            THEN Done("link", origin, withOrigin, 0, "true")
            ELSE Suspended("dialog", "link", origin, withOrigin, 0, manager)]
    /\ UNCHANGED <<persisted, consented, added, wearing>>

\* the link handler, had it returned true before its persist
handleIdentityLinkRequest_agreed_returnsFirst(r, agreed) ==
    /\ Responded
    /\ req[r].pc = "dialog"
    /\ req[r].method = "link"
    /\ LET origin == req[r].origin
           withOrigin == req[r].other
       IN /\ req' = [req EXCEPT ![r] =
                Done("link", origin, withOrigin, 0,
                     IF agreed = FALSE THEN "false" ELSE "true")]
          /\ consented' = IF agreed = FALSE THEN consented
                          ELSE consented \cup {<<origin, withOrigin>>}
    /\ UNCHANGED <<persisted, added, overlaps, wearing>>

\* the user answers the mask link dialog
handleIdentityLinkRequest_agreed(r, agreed) ==
    /\ Responded
    /\ req[r].pc = "dialog"
    /\ req[r].method = "link"
    /\ LET manager == req[r].state
           origin == req[r].origin
           withOrigin == req[r].other
           updated == incrementStats(link(manager, origin, withOrigin), origin)
       IN /\ req' = [req EXCEPT ![r] =
                IF agreed = FALSE
                THEN Done("link", origin, withOrigin, 0, "false")
                ELSE Suspended("persist", "link", origin, withOrigin, 0,
                               updated)]
          /\ consented' = IF agreed = FALSE THEN consented
                          ELSE consented \cup {<<origin, withOrigin>>}
    /\ UNCHANGED <<persisted, added, overlaps, wearing>>

\* the unlink handler, had it prompted the user without looking for the link
handleIdentityUnlinkRequest_alwaysPrompts(r, origin, withOrigin) ==
    /\ CanStart(r)
    /\ req' = [req EXCEPT ![r] =
            Suspended("dialog", "unlink", origin, withOrigin, 0, make)]
    /\ UNCHANGED <<persisted, consented, added, wearing>>

\* the unlink handler, had it looked for the link in either direction
handleIdentityUnlinkRequest_eitherDirection(r, origin, withOrigin) ==
    /\ CanStart(r)
    /\ LET manager == make
       IN req' = [req EXCEPT ![r] =
            IF /\ ~linkExists(manager, origin, withOrigin)
               /\ ~linkExists(manager, withOrigin, origin)
            THEN Done("unlink", origin, withOrigin, 0, "true")
            ELSE Suspended("dialog", "unlink", origin, withOrigin, 0, manager)]
    /\ UNCHANGED <<persisted, consented, added, wearing>>

\* the unlink handler, had it persisted on its early return too
handleIdentityUnlinkRequest_persistsNoOp(r, origin, withOrigin) ==
    /\ CanStart(r)
    /\ LET manager == make
       IN req' = [req EXCEPT ![r] =
            IF ~linkExists(manager, origin, withOrigin)
            THEN Suspended("persist", "unlink", origin, withOrigin, 0, manager)
            ELSE Suspended("dialog", "unlink", origin, withOrigin, 0, manager)]
    /\ UNCHANGED <<persisted, consented, added, wearing>>

handleIdentityUnlinkRequest(r, origin, withOrigin) ==
    /\ CanStart(r)
    /\ LET manager == make
       IN req' = [req EXCEPT ![r] =
            IF ~linkExists(manager, origin, withOrigin)
            THEN Done("unlink", origin, withOrigin, 0, "true")
            ELSE Suspended("dialog", "unlink", origin, withOrigin, 0, manager)]
    /\ UNCHANGED <<persisted, consented, added, wearing>>

\* the unlink handler, had it persisted right after manager.unlink and again
\* at its end
handleIdentityUnlinkRequest_agreed_persistsTwice(r, agreed) ==
    /\ Responded
    /\ req[r].pc = "dialog"
    /\ req[r].method = "unlink"
    /\ LET origin == req[r].origin
           withOrigin == req[r].other
           manager == unlink(req[r].state, origin, withOrigin)
           targetOriginData == getOriginData(manager, withOrigin)
           deauthorized ==
               IF /\ withOrigin \in DOMAIN manager.originData
                  /\ targetOriginData.currentSession # NoSession
                  /\ targetOriginData.currentSession.deriviationOrigin = origin
               THEN [manager EXCEPT
                       !.originData[withOrigin].currentSession = NoSession]
               ELSE manager
           updated == incrementStats(deauthorized, origin)
       IN /\ req' = [req EXCEPT ![r] =
                IF agreed = FALSE
                THEN Done("unlink", origin, withOrigin, 0, "false")
                ELSE Suspended("persist", "unlink", origin, withOrigin, 0,
                               updated)]
          /\ persisted' = IF agreed = FALSE THEN persisted ELSE manager
    /\ UNCHANGED <<consented, added, overlaps, wearing>>

\* the unlink handler, had it logged the target out whatever its session's
\* derivation origin
handleIdentityUnlinkRequest_agreed_logsOut(r, agreed) ==
    /\ Responded
    /\ req[r].pc = "dialog"
    /\ req[r].method = "unlink"
    /\ LET origin == req[r].origin
           withOrigin == req[r].other
           manager == unlink(req[r].state, origin, withOrigin)
           targetOriginData == getOriginData(manager, withOrigin)
           deauthorized ==
               IF /\ withOrigin \in DOMAIN manager.originData
                  /\ targetOriginData.currentSession # NoSession
               THEN [manager EXCEPT
                       !.originData[withOrigin].currentSession = NoSession]
               ELSE manager
           updated == incrementStats(deauthorized, origin)
       IN req' = [req EXCEPT ![r] =
            IF agreed = FALSE
            THEN Done("unlink", origin, withOrigin, 0, "false")
            ELSE Suspended("persist", "unlink", origin, withOrigin, 0, updated)]
    /\ UNCHANGED <<persisted, consented, added, overlaps, wearing>>

\* the user answers the mask unlink dialog
handleIdentityUnlinkRequest_agreed(r, agreed) ==
    /\ Responded
    /\ req[r].pc = "dialog"
    /\ req[r].method = "unlink"
    /\ LET origin == req[r].origin
           withOrigin == req[r].other
           manager == unlink(req[r].state, origin, withOrigin)
           \* getOriginData returns the stored entry itself, so clearing
           \* the session on it changes the manager's state in place
           targetOriginData == getOriginData(manager, withOrigin)
           deauthorized ==
               IF /\ withOrigin \in DOMAIN manager.originData
                  /\ targetOriginData.currentSession # NoSession
                  /\ targetOriginData.currentSession.deriviationOrigin = origin
               THEN [manager EXCEPT
                       !.originData[withOrigin].currentSession = NoSession]
               ELSE manager
           updated == incrementStats(deauthorized, origin)
       IN req' = [req EXCEPT ![r] =
            IF agreed = FALSE
            THEN Done("unlink", origin, withOrigin, 0, "false")
            ELSE Suspended("persist", "unlink", origin, withOrigin, 0, updated)]
    /\ UNCHANGED <<persisted, consented, added, overlaps, wearing>>

\* the login options handler, had it walked the origins this origin granted
\* its masks to (linksTo) where it walks the origins that granted theirs
protected_handleIdentityGetLoginOptions_linksTo(r, forOrigin) ==
    /\ CanStart(r)
    /\ LET manager == incrementStats(make, forOrigin)
           originData == getOriginData(manager, forOrigin)
           result == <<<<forOrigin, loginOptionsOf(manager, forOrigin)>>>> \o
                     [j \in 1..Len(originData.linksTo) |->
                        <<originData.linksTo[j],
                          loginOptionsOf(manager, originData.linksTo[j])>>]
       IN req' = [req EXCEPT ![r] =
            [Suspended("persist", "getLoginOptions", forOrigin, Undefined, 0,
                       manager) EXCEPT !.value = result]]
    /\ UNCHANGED <<persisted, consented, added, wearing>>

protected_handleIdentityGetLoginOptions(r, forOrigin) ==
    /\ CanStart(r)
    /\ LET manager == incrementStats(make, forOrigin)
           originData == getOriginData(manager, forOrigin)
           result == <<<<forOrigin, loginOptionsOf(manager, forOrigin)>>>> \o
                     [j \in 1..Len(originData.linksFrom) |->
                        <<originData.linksFrom[j],
                          loginOptionsOf(manager, originData.linksFrom[j])>>]
       IN req' = [req EXCEPT ![r] =
            [Suspended("persist", "getLoginOptions", forOrigin, Undefined, 0,
                       manager) EXCEPT !.value = result]]
    /\ UNCHANGED <<persisted, consented, added, wearing>>

\* the sign handler, had it given every origin the implicit session
handleIdentitySign_implicitEverywhere(r, origin, salt) ==
    /\ CanStart(r)
    /\ LET manager == make
           stored == getOriginData(manager, origin).currentSession
           session == IF stored = NoSession THEN Session(0, origin, 0)
                      ELSE stored
           identity == getSignIdentity(session.deriviationOrigin,
                                       session.identityId, salt)
       IN req' = [req EXCEPT ![r] =
            [Suspended("persist", "sign", origin, Undefined, 0,
                       incrementStats(manager, origin))
                EXCEPT !.value = <<identity>>]]
    /\ UNCHANGED <<persisted, consented, added, wearing>>

\* the sign handler, had it stored the implicit session
handleIdentitySign_storesImplicit(r, origin, salt) ==
    /\ CanStart(r)
    /\ LET manager == make
           originData == getOriginData(manager, origin)
           stored == originData.currentSession
           session == IF stored = NoSession THEN Session(0, origin, 0)
                      ELSE stored
           identity == getSignIdentity(session.deriviationOrigin,
                                       session.identityId, salt)
           updated == setOriginData(manager, origin,
                         [originData EXCEPT !.currentSession = session])
       IN req' = [req EXCEPT ![r] =
            IF stored = NoSession /\ ~isMasquerade(origin)
            THEN Done("sign", origin, Undefined, 0, "UNAUTHORIZED")
            ELSE [Suspended("persist", "sign", origin, Undefined, 0,
                            incrementStats(updated, origin))
                    EXCEPT !.value = <<identity>>]]
    /\ UNCHANGED <<persisted, consented, added, wearing>>

handleIdentitySign(r, origin, salt) ==
    /\ CanStart(r)
    /\ LET manager == make
           stored == getOriginData(manager, origin).currentSession
           session == IF stored = NoSession THEN Session(0, origin, 0)
                      ELSE stored
           identity == getSignIdentity(session.deriviationOrigin,
                                       session.identityId, salt)
       IN req' = [req EXCEPT ![r] =
            IF stored = NoSession /\ ~isMasquerade(origin)
            THEN Done("sign", origin, Undefined, 0, "UNAUTHORIZED")
            ELSE [Suspended("persist", "sign", origin, Undefined, 0,
                            incrementStats(manager, origin))
                    EXCEPT !.value = <<identity>>]]
    /\ UNCHANGED <<persisted, consented, added, wearing>>

handleIdentityGetPublicKey(r, origin, salt) ==
    /\ CanStart(r)
    /\ LET manager == make
           stored == getOriginData(manager, origin).currentSession
           session == IF stored = NoSession THEN Session(0, origin, 0)
                      ELSE stored
           identity == getSignIdentity(session.deriviationOrigin,
                                       session.identityId, salt)
       IN req' = [req EXCEPT ![r] =
            IF stored = NoSession /\ ~isMasquerade(origin)
            THEN Done("getPublicKey", origin, Undefined, 0, "UNAUTHORIZED")
            ELSE [Suspended("persist", "getPublicKey", origin, Undefined, 0,
                            incrementStats(manager, origin))
                    EXCEPT !.value = <<identity>>]]
    /\ UNCHANGED <<persisted, consented, added, wearing>>

handleIdentitySessionExists(r, origin) ==
    /\ CanStart(r)
    /\ req' = [req EXCEPT ![r] =
            Suspended("persist", "sessionExists", origin, Undefined, 0,
                      incrementStats(make, origin))]
    /\ UNCHANGED <<persisted, consented, added, wearing>>

\* the links query, had it answered with the origins that granted their
\* masks to this one
handleIdentityGetLinks_linksFrom(r, origin) ==
    /\ CanStart(r)
    /\ LET manager == make
           originData == getOriginData(manager, origin)
       IN req' = [req EXCEPT ![r] =
            [Suspended("persist", "getLinks", origin, Undefined, 0,
                       incrementStats(manager, origin))
                EXCEPT !.value = originData.linksFrom]]
    /\ UNCHANGED <<persisted, consented, added, wearing>>

handleIdentityGetLinks(r, origin) ==
    /\ CanStart(r)
    /\ LET manager == make
           originData == getOriginData(manager, origin)
       IN req' = [req EXCEPT ![r] =
            [Suspended("persist", "getLinks", origin, Undefined, 0,
                       incrementStats(manager, origin))
                EXCEPT !.value = originData.linksTo]]
    /\ UNCHANGED <<persisted, consented, added, wearing>>

\* the ICRC-1 transfer confirmation opens its dialog before it loads anything
protected_handleShowICRC1TransferConfirm(r, requestOrigin) ==
    /\ CanStart(r)
    /\ req' = [req EXCEPT ![r] =
            Suspended("dialog", "showTransferConfirm", requestOrigin,
                      Undefined, 0, NoState)]
    /\ UNCHANGED <<persisted, consented, added, wearing>>

\* the user answers the transfer dialog: only now is the state loaded, and
\* the counter is incremented whatever the answer
protected_handleShowICRC1TransferConfirm_agreed(r, agreed) ==
    /\ Responded
    /\ req[r].pc = "dialog"
    /\ req[r].method = "showTransferConfirm"
    /\ LET manager == incrementStats(make, req[r].origin)
       IN req' = [req EXCEPT ![r] =
            [Suspended("persist", "showTransferConfirm", req[r].origin,
                       Undefined, 0, manager)
                EXCEPT !.value = <<IF agreed THEN "true" ELSE "false">>]]
    /\ UNCHANGED <<persisted, consented, added, overlaps, wearing>>

\* the return values, had the session query answered true for every origin
returns_sessionAlways(rq) ==
    IF rq.method = "sessionExists"
    THEN Done(rq.method, rq.origin, Undefined, 0, "true")
    ELSE IF rq.method \in {"getLoginOptions", "sign", "getPublicKey", "getLinks"}
    THEN Returned(rq.method, rq.origin, rq.value)
    ELSE IF rq.method = "showTransferConfirm"
    THEN Done(rq.method, rq.origin, Undefined, 0, rq.value[1])
    ELSE Done(rq.method, rq.origin, rq.other, rq.identityId, "true")

\* what a handler returns once its persist has resolved
returns(rq) ==
    IF rq.method = "sessionExists"
    THEN Done(rq.method, rq.origin, Undefined, 0,
              IF getOriginData(rq.state, rq.origin).currentSession # NoSession
              THEN "true" ELSE "false")
    ELSE IF rq.method \in {"getLoginOptions", "sign", "getPublicKey", "getLinks"}
    THEN Returned(rq.method, rq.origin, rq.value)
    ELSE IF rq.method = "showTransferConfirm"
    THEN Done(rq.method, rq.origin, Undefined, 0, rq.value[1])
    ELSE Done(rq.method, rq.origin, rq.other, rq.identityId, "true")

\* manager.persist(): the whole state replaces the stored blob, then the
\* handler returns
persist(r) ==
    /\ Responded
    /\ req[r].pc = "persist"
    /\ persisted' = req[r].state
    /\ req' = [req EXCEPT ![r] = returns(req[r])]
    /\ added' = IF req[r].method = "add"
                THEN [added EXCEPT ![req[r].origin] = @ + 1]
                ELSE added
    /\ wearing' = IF req[r].method = "login"
                  THEN [wearing EXCEPT ![req[r].origin] =
                          IF \/ req[r].other = req[r].origin
                             \/ linkExists(req[r].state, req[r].other,
                                           req[r].origin)
                          THEN req[r].other ELSE Undefined]
                  ELSE IF req[r].method = "logout"
                  THEN [wearing EXCEPT ![req[r].origin] = Undefined]
                  ELSE wearing
    /\ UNCHANGED <<consented, overlaps>>

\* the caller has received the response; the slot is free again
respond(r) ==
    /\ req[r].pc = "done"
    /\ req' = [req EXCEPT ![r] = Idle]
    /\ UNCHANGED <<persisted, consented, added, overlaps, wearing>>

Next ==
    \E r \in Slots :
        \/ \E o \in Origins : protected_handleIdentityAdd(r, o)
        \/ \E o \in Origins, i \in IdentityIds, d \in Origins,
              t \in Timestamps :
                protected_handleIdentityLogin(r, login(o, i, d), t)
        \/ \E o \in Origins : handleIdentityLogoutRequest(r, o)
        \/ \E agreed \in BOOLEAN : handleIdentityLogoutRequest_agreed(r, agreed)
        \/ \E o \in Origins, w \in Origins : handleIdentityLinkRequest(r, o, w)
        \/ \E agreed \in BOOLEAN : handleIdentityLinkRequest_agreed(r, agreed)
        \/ \E o \in Origins, w \in Origins : handleIdentityUnlinkRequest(r, o, w)
        \/ \E agreed \in BOOLEAN : handleIdentityUnlinkRequest_agreed(r, agreed)
        \/ \E o \in Origins : protected_handleIdentityGetLoginOptions(r, o)
        \/ \E o \in Origins, salt \in Salts : handleIdentitySign(r, o, salt)
        \/ \E o \in Origins, salt \in Salts :
                handleIdentityGetPublicKey(r, o, salt)
        \/ \E o \in Origins : handleIdentitySessionExists(r, o)
        \/ persist(r)
        \/ respond(r)

Spec == Init /\ [][Next]_vars

\* ------------------------------------------------------ the queries
\* the requests that only read, and those that build the states they read
NextOfQueries ==
    \E r \in Slots :
        \/ \E o \in Origins : protected_handleIdentityAdd(r, o)
        \/ \E o \in Origins, i \in IdentityIds, d \in Origins,
              t \in Timestamps :
                protected_handleIdentityLogin(r, login(o, i, d), t)
        \/ \E o \in Origins, w \in Origins : handleIdentityLinkRequest(r, o, w)
        \/ \E agreed \in BOOLEAN : handleIdentityLinkRequest_agreed(r, agreed)
        \/ \E o \in Origins : protected_handleIdentityGetLoginOptions(r, o)
        \/ \E o \in Origins : handleIdentityGetLinks(r, o)
        \/ \E o \in Origins : handleIdentitySessionExists(r, o)
        \/ \E o \in Origins : protected_handleShowICRC1TransferConfirm(r, o)
        \/ \E agreed \in BOOLEAN :
                protected_handleShowICRC1TransferConfirm_agreed(r, agreed)
        \/ persist(r)
        \/ respond(r)

SpecOfQueries == Init /\ [][NextOfQueries]_vars

\* ---------------------------------------------------- the login page
\* LoginPage: the options the page lists are the answer the snap gave to
\* getLoginOptions(referrerOrigin); the user picks while that answer still is
\* the answer of the stored state
loginOptions(referrerOrigin) ==
    LET originData == getOriginData(persisted, referrerOrigin)
    IN <<<<referrerOrigin, loginOptionsOf(persisted, referrerOrigin)>>>> \o
       [j \in 1..Len(originData.linksFrom) |->
          <<originData.linksFrom[j],
            loginOptionsOf(persisted, originData.linksFrom[j])>>]

\* LoginPage.onLogin, bound to the option at position idx of group j: the
\* page sends login(referrerOrigin, idx, origin of the group).  The page
\* leaves for "/" when the referrer is the Masquerade site itself
onLogin(r, referrerOrigin, j, idx, timestamp) ==
    /\ referrerOrigin # MSQ_SNAP_SITE_ORIGIN
    /\ j \in 1..Len(loginOptions(referrerOrigin))
    /\ idx \in 0..(Len(loginOptions(referrerOrigin)[j][2]) - 1)
    /\ protected_handleIdentityLogin(
            r, login(referrerOrigin, idx, loginOptions(referrerOrigin)[j][1]),
            timestamp)

\* the login page, the requests that build the options it lists, and the
\* signatures made with the session it opens
NextOfLoginPage ==
    \E r \in Slots :
        \/ \E o \in Origins : protected_handleIdentityAdd(r, o)
        \/ \E o \in Origins, w \in Origins : handleIdentityLinkRequest(r, o, w)
        \/ \E agreed \in BOOLEAN : handleIdentityLinkRequest_agreed(r, agreed)
        \/ \E o \in Origins : protected_handleIdentityGetLoginOptions(r, o)
        \/ \E o \in Origins, j \in 1..Cardinality(Origins),
              idx \in IdentityIds, t \in Timestamps : onLogin(r, o, j, idx, t)
        \/ \E o \in Origins, salt \in Salts : handleIdentitySign(r, o, salt)
        \/ persist(r)
        \/ respond(r)

SpecOfLoginPage == Init /\ [][NextOfLoginPage]_vars

\* ------------------------------------------------ requests that fail
\* snap.request({method: "snap_dialog"}) rejects (the host cancels the
\* dialog): the handler throws at its await
snap_dialog_rejects(r) ==
    /\ Responded
    /\ req[r].pc = "dialog"
    /\ req' = [req EXCEPT ![r] =
            Done(req[r].method, req[r].origin, req[r].other, 0, "rejected")]
    /\ UNCHANGED <<persisted, consented, added, overlaps, wearing>>

\* the entropy request, had the handlers persisted before they derived the key
snap_getEntropy_rejects_persisted(r) ==
    /\ Responded
    /\ req[r].pc = "persist"
    /\ \/ req[r].method \in {"sign", "getPublicKey"}
       \/ /\ req[r].method = "getLoginOptions"
          /\ \E j \in 1..Len(req[r].value) : req[r].value[j][2] # <<>>
    /\ persisted' = req[r].state
    /\ req' = [req EXCEPT ![r] =
            Done(req[r].method, req[r].origin, Undefined, 0, "rejected")]
    /\ UNCHANGED <<consented, added, overlaps, wearing>>

\* snap.request({method: "snap_getEntropy"}) rejects: getSignIdentity throws,
\* and so does the handler that awaits it (the login options handler asks for
\* entropy only when there is a mask to list)
snap_getEntropy_rejects(r) ==
    /\ Responded
    /\ req[r].pc = "persist"
    /\ \/ req[r].method \in {"sign", "getPublicKey"}
       \/ /\ req[r].method = "getLoginOptions"
          /\ \E j \in 1..Len(req[r].value) : req[r].value[j][2] # <<>>
    /\ req' = [req EXCEPT ![r] =
            Done(req[r].method, req[r].origin, Undefined, 0, "rejected")]
    /\ UNCHANGED <<persisted, consented, added, overlaps, wearing>>

\* the handlers that mutate, those that await the host for a dialog or for
\* entropy, the links query, and the host calls that reject
NextOfFailures ==
    \E r \in Slots :
        \/ \E o \in Origins : protected_handleIdentityAdd(r, o)
        \/ \E o \in Origins, i \in IdentityIds, d \in Origins,
              t \in Timestamps :
                protected_handleIdentityLogin(r, login(o, i, d), t)
        \/ \E o \in Origins : handleIdentityLogoutRequest(r, o)
        \/ \E agreed \in BOOLEAN : handleIdentityLogoutRequest_agreed(r, agreed)
        \/ \E o \in Origins, w \in Origins : handleIdentityLinkRequest(r, o, w)
        \/ \E agreed \in BOOLEAN : handleIdentityLinkRequest_agreed(r, agreed)
        \/ \E o \in Origins, w \in Origins : handleIdentityUnlinkRequest(r, o, w)
        \/ \E agreed \in BOOLEAN : handleIdentityUnlinkRequest_agreed(r, agreed)
        \/ \E o \in Origins : protected_handleIdentityGetLoginOptions(r, o)
        \/ \E o \in Origins, salt \in Salts : handleIdentitySign(r, o, salt)
        \/ \E o \in Origins : handleIdentityGetLinks(r, o)
        \/ snap_dialog_rejects(r)
        \/ snap_getEntropy_rejects(r)
        \/ persist(r)
        \/ respond(r)

SpecOfFailures == Init /\ [][NextOfFailures]_vars

\* --------------------------------------------- login options, three origins
\* a third origin, so that an origin can have two grantors and the order of
\* linksFrom shows
OriginsOfOptions == Origins \cup {"https://b"}

\* the requests that set a state up: addIdentity for an origin, and a link
\* request by one origin naming another that the user confirms
SetupRequests ==
    {<<"add", o, o>> : o \in OriginsOfOptions} \cup
    {<<"link", p[1], p[2]>> :
        p \in {q \in OriginsOfOptions \X OriginsOfOptions : q[1] # q[2]}}

\* the state stored once the requests were served one after another
RECURSIVE Served(_)
Served(requests) ==
    IF requests = <<>>
    THEN makeDefaultState
    ELSE LET before == Served(SubSeq(requests, 1, Len(requests) - 1))
             rq == requests[Len(requests)]
         IN IF rq[1] = "add"
            THEN incrementStats(addIdentity(before, rq[2]), rq[2])
            ELSE IF linkExists(before, rq[2], rq[3])
            THEN before
            ELSE incrementStats(link(before, rq[2], rq[3]), rq[2])

\* the login options are a function of the state the handler loads: the
\* states loaded here are those left by up to MaxStats - 1 set-up requests
InitOfOptions ==
    /\ persisted \in {Served(requests) :
                        requests \in UNION {[1..n -> SetupRequests] :
                                              n \in 0..(MaxStats - 1)}}
    /\ req = [r \in Slots |-> Idle]
    /\ consented = {<<a, b>> \in OriginsOfOptions \X OriginsOfOptions :
                        linkExists(persisted, a, b)}
    /\ added = [o \in Origins |-> getOriginData(persisted, o).identitiesTotal]
    /\ overlaps = 0
    /\ wearing = [o \in Origins |-> Undefined]

NextOfOptions ==
    \E r \in Slots :
        \/ \E o \in OriginsOfOptions :
                protected_handleIdentityGetLoginOptions(r, o)
        \/ persist(r)
        \/ respond(r)

SpecOfOptions == InitOfOptions /\ [][NextOfOptions]_vars

\* ------------------------------------------- two keys side by side
\* origins and identity ids whose digits could run into each other
OriginsOfEntropy == OriginsOfOptions \cup {"https://a1", "https://a\n1"}

IdsOfEntropy == {0, 1, 11}

\* getSignIdentity called for two masks; the slot holds, for each, the
\* arguments and the key
getSignIdentity_pair(r, origin1, identityId1, origin2, identityId2) ==
    /\ CanStart(r)
    /\ \A q \in Slots : req[q].pc = "idle"
    /\ req' = [req EXCEPT ![r] =
            Returned("getSignIdentity", origin1,
               <<[origin |-> origin1, identityId |-> identityId1,
                  key |-> getSignIdentity(origin1, identityId1, Undefined)],
                 [origin |-> origin2, identityId |-> identityId2,
                  key |-> getSignIdentity(origin2, identityId2, Undefined)]>>)]
    /\ UNCHANGED <<persisted, consented, added, wearing>>

NextOfEntropy ==
    \E r \in Slots :
        \/ \E o1 \in OriginsOfEntropy, o2 \in OriginsOfEntropy,
              i1 \in IdsOfEntropy, i2 \in IdsOfEntropy :
                getSignIdentity_pair(r, o1, i1, o2, i2)
        \/ \E o \in OriginsOfOptions :
                protected_handleIdentityGetLoginOptions(r, o)
        \/ persist(r)
        \/ respond(r)

SpecOfEntropy == InitOfOptions /\ [][NextOfEntropy]_vars

\* ------------------------------------------------------ the method guard
\* SNAP_METHODS.protected: the protected methods by kind, named by their
\* place in the table
ProtectedKinds == <<"identity", "state", "icrc1", "statistics">>

SNAP_METHODS_protected ==
    [identity |-> <<"protected.identity.add", "protected.identity.login",
                    "protected.identity.getLoginOptions",
                    "protected.identity.editPseudonym",
                    "protected.identity.stopSession",
                    "protected.identity.unlinkOne",
                    "protected.identity.unlinkAll">>,
     state |-> <<"protected.state.getAllOriginData",
                 "protected.state.getAllAssetData">>,
     icrc1 |-> <<"protected.icrc1.addAsset", "protected.icrc1.addAssetAccount",
                 "protected.icrc1.editAssetAccount",
                 "protected.icrc1.showTransferConfirm">>,
     statistics |-> <<"protected.statistics.get",
                      "protected.statistics.reset">>]

\* Object.keys(..).flatMap(key => Object.values(..[key]))
RECURSIVE flatMap(_, _)
flatMap(keys, table) ==
    IF keys = <<>> THEN <<>>
    ELSE table[Head(keys)] \o flatMap(Tail(keys), table)

PROTECTED_METHODS == flatMap(ProtectedKinds, SNAP_METHODS_protected)

\* the methods every origin may call, and a name the snap does not know
PublicMethods ==
    {"public.identity.sign", "public.identity.getPublicKey",
     "public.identity.getLinks", "public.identity.sessionExists",
     "public.identity.requestLogout", "public.identity.requestLink",
     "public.identity.requestUnlink", "unknown"}

\* the method names a caller may send
Methods ==
    UNION {{SNAP_METHODS_protected[kind][i] :
                i \in 1..Len(SNAP_METHODS_protected[kind])} :
             kind \in DOMAIN SNAP_METHODS_protected}
        \cup PublicMethods

\* the guard, had it turned the Masquerade site away and let the others in
guardMethods_inverted(method, origin) ==
    IF ~Contains(PROTECTED_METHODS, method) THEN Undefined
    ELSE IF isMasquerade(origin) THEN "PROTECTED_METHOD"
    ELSE Undefined

\* returns nothing (undefined) or throws PROTECTED_METHOD
guardMethods(method, origin) ==
    IF ~Contains(PROTECTED_METHODS, method) THEN Undefined
    ELSE IF ~isMasquerade(origin) THEN "PROTECTED_METHOD"
    ELSE Undefined

\* a call of some method by some origin is about to be guarded
InitOfGuard ==
    /\ persisted = makeDefaultState
    /\ \E method \in Methods, origin \in OriginsOfOptions :
            req = [r \in Slots |->
                     IF r = 1
                     THEN Suspended("guard", method, origin, Undefined, 0,
                                    NoState)
                     ELSE Idle]
    /\ consented = {}
    /\ added = [o \in Origins |-> 0]
    /\ overlaps = 0
    /\ wearing = [o \in Origins |-> Undefined]

guarded(r) ==
    /\ req[r].pc = "guard"
    /\ req' = [req EXCEPT ![r] =
            Done(req[r].method, req[r].origin, Undefined, 0,
                 guardMethods(req[r].method, req[r].origin))]
    /\ UNCHANGED <<persisted, consented, added, overlaps, wearing>>

NextOfGuard == \E r \in Slots : guarded(r) \/ respond(r)

SpecOfGuard == InitOfGuard /\ [][NextOfGuard]_vars


\* ------------------------------------------------------------- claims

C2_LoginWithoutLinkUnauthorized ==
    \A r \in Slots :
        (/\ req[r].pc = "done"
         /\ req[r].method = "login"
         /\ req[r].other # req[r].origin
         /\ ~linkExists(persisted, req[r].other, req[r].origin)
         /\ getOriginData(persisted, req[r].origin).identitiesTotal > 0)
        => req[r].result = "UNAUTHORIZED"

\* C3: every stored session has identityId < identitiesTotal of its
\* derivation origin (a login with a larger identity id creates no session).
C3_SessionIdentityInRange ==
    \A x \in Origins :
        LET session == getOriginData(persisted, x).currentSession
        IN session # NoSession =>
              session.identityId <
                 getOriginData(persisted, session.deriviationOrigin).identitiesTotal

\* C4: when a login for X with identity id k and derivation origin Y (X
\* itself, or an origin linked to X) has returned true, the persisted session
\* of X has identityId = k and derivation origin = Y.
C4_LoginRecordsRequestedMask ==
    \A r \in Slots :
        (/\ req[r].pc = "done"
         /\ req[r].method = "login"
         /\ req[r].result = "true"
         /\ \/ req[r].other = req[r].origin
            \/ linkExists(persisted, req[r].other, req[r].origin))
        => LET session == getOriginData(persisted, req[r].origin).currentSession
           IN /\ session # NoSession
              /\ session.identityId = req[r].identityId
              /\ session.deriviationOrigin = req[r].other

\* C5: over an existing edge A -> B, a login for B with derivation origin A
\* and identity id 0 returns true only if identitiesTotal(A) >= 1, and fails
\* as unreachable when identitiesTotal(A) = 0.
C5_LinkedLoginNeedsMaskOfGrantor ==
    \A r \in Slots :
        (/\ req[r].pc = "done"
         /\ req[r].method = "login"
         /\ req[r].identityId = 0
         /\ req[r].other # req[r].origin
         /\ linkExists(persisted, req[r].other, req[r].origin)
         /\ <<req[r].other, req[r].origin>> \in consented)
        => /\ req[r].result = "true" =>
                 getOriginData(persisted, req[r].other).identitiesTotal >= 1
           /\ getOriginData(persisted, req[r].other).identitiesTotal = 0 =>
                 req[r].result = "UNREACHEABLE"

\* C6: a session on X made by a login that named the linked derivation
\* origin Y # X is gone, with the edge Y -> X, once an unlink by Y naming X
\* that the user confirmed has persisted.  Stated for runs without overlapping
\* requests.
C6_UnlinkCascadesLogout ==
    [][\A r \in Slots :
        (/\ req[r].pc = "persist"
         /\ req'[r].pc = "done"
         /\ req[r].method = "unlink"
         /\ overlaps = 0
         /\ req[r].origin # req[r].other
         /\ wearing[req[r].other] = req[r].origin
         /\ linkExists(persisted, req[r].origin, req[r].other)
         /\ getOriginData(persisted, req[r].other).currentSession # NoSession)
        => /\ ~linkExists(persisted', req[r].origin, req[r].other)
           /\ getOriginData(persisted', req[r].other).currentSession = NoSession
      ]_vars

\* C7: the stored blob changes only when a handler's persist writes the state
\* it ends with, all its mutations applied, and a request waiting on its
\* dialog holds the blob as it was stored when the request loaded it: no
\* request loads a state that holds a part of another request's mutation.
C7_LoadsOnlyFullyPersisted ==
    [][/\ persisted' # persisted =>
            \E r \in Slots : /\ req[r].pc = "persist"
                             /\ req'[r].pc = "done"
                             /\ persisted' = req[r].state
       /\ \A r \in Slots :
            (req[r].pc = "idle" /\ req'[r].pc = "dialog") =>
                req'[r].state = persisted
      ]_vars

\* C7 witness: a request has loaded the blob and waits on its dialog while
\* another request holds a mutated state that it has not yet persisted
C7_Witness ==
    \E r, q \in Slots :
        /\ r # q
        /\ req[r].pc = "persist"
        /\ req[q].pc = "dialog"
        /\ req[q].state = persisted
        /\ req[r].state # persisted

\* C8: no update is lost: once every request has finished, the identities
\* added by the addIdentity requests that returned are all in the stored
\* state (no request removes an identity).
C8_NoLostUpdate ==
    (\A r \in Slots : req[r].pc \in {"idle", "done"}) =>
        \A o \in Origins :
            getOriginData(persisted, o).identitiesTotal = added[o]

\* C9: in the stored state B is in linksTo(A) if and only if A is in
\* linksFrom(B).
C9_LinkSetsConsistent ==
    \A a \in Origins, b \in Origins :
        Contains(getOriginData(persisted, a).linksTo, b) <=>
            Contains(getOriginData(persisted, b).linksFrom, a)

\* C9 witness: the edge A -> B is stored while the edge B -> A, once
\* confirmed, is stored no more
C9_Witness ==
    \E a \in Origins, b \in Origins :
        /\ linkExists(persisted, a, b)
        /\ Contains(getOriginData(persisted, b).linksFrom, a)
        /\ <<b, a>> \in consented
        /\ ~linkExists(persisted, b, a)
        /\ \A r \in Slots : req[r].pc = "idle"

\* C10: every stored edge A -> B follows a link request by A naming B that
\* the user confirmed, and an edge A -> B enters the stored state only by the
\* persist of a link request issued by A naming B.
C10_EdgesOnlyByConfirmedLink ==
    [][\A a \in Origins, b \in Origins :
          /\ linkExists(persisted', a, b) => <<a, b>> \in consented'
          /\ (linkExists(persisted', a, b) /\ ~linkExists(persisted, a, b)) =>
                \E r \in Slots : /\ req[r].pc = "persist"
                                 /\ req'[r].pc = "done"
                                 /\ req[r].method = "link"
                                 /\ req[r].origin = a
                                 /\ req[r].other = b
      ]_vars

\* C11: when a link request by A naming B (A # B) that the user confirmed
\* has persisted, the edge A -> B is stored and the edge B -> A is stored
\* exactly if it was before; it is stored only if a link request by B naming
\* A was confirmed.
C11_LinkIsAsymmetric ==
    [][\A r \in Slots :
        (/\ req[r].pc = "persist"
         /\ req'[r].pc = "done"
         /\ req[r].method = "link"
         /\ req[r].origin # req[r].other)
        => /\ linkExists(persisted', req[r].origin, req[r].other)
           /\ linkExists(persisted', req[r].other, req[r].origin) <=>
                 linkExists(persisted, req[r].other, req[r].origin)
           /\ linkExists(persisted', req[r].other, req[r].origin) =>
                 <<req[r].other, req[r].origin>> \in consented
      ]_vars

\* the number of times x is listed in s
Occurrences(s, x) == Cardinality({i \in 1..Len(s) : s[i] = x})

\* C12: a link request whose origin is the origin it names fails with
\* INVALID_INPUT at once (no dialog, no persist, the stored state untouched),
\* and no stored state has an edge A -> A.
C12_SelfLinkRejected ==
    [][/\ \A r \in Slots :
            (/\ req[r].pc = "idle"
             /\ req'[r].pc # "idle"
             /\ req'[r].method = "link"
             /\ req'[r].origin = req'[r].other)
            => /\ req'[r].pc = "done"
               /\ req'[r].result = "INVALID_INPUT"
               /\ persisted' = persisted
       /\ \A a \in Origins :
            /\ ~linkExists(persisted', a, a)
            /\ ~Contains(getOriginData(persisted', a).linksFrom, a)
      ]_vars

\* C12 witness: a link request of an origin naming itself has been refused
\* while the stored state holds an edge of that origin
C12_Witness ==
    \E r \in Slots :
        /\ req[r].pc = "done"
        /\ req[r].method = "link"
        /\ req[r].origin = req[r].other
        /\ req[r].result = "INVALID_INPUT"
        /\ getOriginData(persisted, req[r].origin).linksTo # <<>>

\* C13: a link request by A naming B delivered while the edge A -> B is
\* stored returns true at once (no dialog, the stored state untouched); when
\* a link request by A naming B has returned true, B is listed exactly once
\* in linksTo(A) and A exactly once in linksFrom(B); no stored list names an
\* origin twice.
C13_LinkIdempotent ==
    [][/\ \A r \in Slots :
            (/\ req[r].pc = "idle"
             /\ req'[r].pc # "idle"
             /\ req'[r].method = "link"
             /\ linkExists(persisted, req'[r].origin, req'[r].other))
            => /\ req'[r].pc = "done"
               /\ req'[r].result = "true"
               /\ persisted' = persisted
       /\ \A r \in Slots :
            (/\ req'[r].pc = "done"
             /\ req'[r].method = "link"
             /\ req'[r].result = "true")
            => /\ Occurrences(getOriginData(persisted', req'[r].origin).linksTo,
                              req'[r].other) = 1
               /\ Occurrences(getOriginData(persisted', req'[r].other).linksFrom,
                              req'[r].origin) = 1
       /\ \A a \in Origins, b \in Origins :
            /\ Occurrences(getOriginData(persisted', a).linksTo, b) <= 1
            /\ Occurrences(getOriginData(persisted', a).linksFrom, b) <= 1
      ]_vars

\* C13 witness: of two overlapping link requests by A naming B that the user
\* both confirmed, one has returned and the other is about to persist the
\* edge again
C13_Witness ==
    \E r \in Slots, q \in Slots :
        /\ r # q
        /\ req[r].pc = "done"
        /\ req[r].method = "link"
        /\ req[r].result = "true"
        /\ req[q].pc = "persist"
        /\ req[q].method = "link"
        /\ req[q].origin = req[r].origin
        /\ req[q].other = req[r].other
        /\ linkExists(persisted, req[r].origin, req[r].other)

\* C14: an unlink request by A naming B delivered while the edge A -> B is
\* not stored returns true at once: no dialog, and the stored state (links,
\* sessions, identity counts of every origin) is untouched.
C14_UnlinkAbsentEdgeNoOp ==
    [][\A r \in Slots :
        (/\ req[r].pc = "idle"
         /\ req'[r].pc # "idle"
         /\ req'[r].method = "unlink"
         /\ ~linkExists(persisted, req'[r].origin, req'[r].other))
        => /\ req'[r].pc = "done"
           /\ req'[r].result = "true"
           /\ persisted' = persisted
      ]_vars

\* C14 witness: an unlink request for an edge the user never confirmed has
\* returned true, over a stored state that holds origin data
C14_Witness ==
    \E r \in Slots :
        /\ req[r].pc = "done"
        /\ req[r].method = "unlink"
        /\ req[r].result = "true"
        /\ req[r].origin # req[r].other
        /\ <<req[r].origin, req[r].other>> \notin consented
        /\ ~linkExists(persisted, req[r].origin, req[r].other)
        /\ DOMAIN persisted.originData # {}

\* C15: a link, unlink or log out request leaves its dialog for its return
\* only with the result false, and that step leaves the stored state as it
\* is: nothing is persisted for a declined request.
C15_DeclinedChangesNothing ==
    [][\A r \in Slots :
        (req[r].pc = "dialog" /\ req'[r].pc # "dialog")
        => \/ /\ req'[r].pc = "done"
              /\ req'[r].result = "false"
              /\ req'[r].method \in {"link", "unlink", "logout"}
              /\ persisted' = persisted
           \/ /\ req'[r].pc = "persist"
              /\ persisted' = persisted
      ]_vars

\* C15 witness: the user has declined a log out, and the session is still
\* stored
C15_Witness ==
    \E r \in Slots :
        /\ req[r].pc = "done"
        /\ req[r].method = "logout"
        /\ req[r].result = "false"
        /\ getOriginData(persisted, req[r].origin).currentSession # NoSession

\* C16: in a run without overlapping requests, for every origin X:
\* identitiesTotal(X) is the number of addIdentity requests for X that
\* returned; a login for X with derivation origin X and an identity id below
\* identitiesTotal(X) is accepted and stores that session; a session query for
\* X returns true exactly if the request before it left X a session; a log
\* out the user confirmed leaves X no session.
C16_SessionLifecycle ==
    [][\A r \in Slots :
        /\ (/\ overlaps' = 0
            /\ req[r].pc = "idle"
            /\ req'[r].pc # "idle"
            /\ req'[r].method = "login"
            /\ req'[r].other = req'[r].origin
            /\ req'[r].identityId <
                  getOriginData(persisted, req'[r].origin).identitiesTotal)
           => req'[r].pc = "persist"
        /\ (overlaps = 0 /\ req[r].pc = "persist" /\ req'[r].pc = "done")
           => LET x == req[r].origin
                  before == getOriginData(persisted, x)
                  after == getOriginData(persisted', x)
              IN /\ after.identitiesTotal = added'[x]
                 /\ req[r].method = "login" =>
                       /\ req'[r].result = "true"
                       /\ after.currentSession # NoSession
                       /\ after.currentSession.identityId = req[r].identityId
                 /\ req[r].method = "logout" =>
                       /\ req'[r].result = "true"
                       /\ after.currentSession = NoSession
                 /\ req[r].method = "sessionExists" =>
                       /\ req'[r].result \in {"true", "false"}
                       /\ req'[r].result = "true" <=>
                             before.currentSession # NoSession
                       /\ after.currentSession = before.currentSession
      ]_vars

\* C16 witness: after an addIdentity and a login for X with derivation origin
\* X, and no request overlapping another, a session query for X has returned
\* true
C16_Witness ==
    \E r \in Slots :
        /\ overlaps = 0
        /\ req[r].pc = "done"
        /\ req[r].method = "sessionExists"
        /\ req[r].result = "true"
        /\ added[req[r].origin] >= 1
        /\ wearing[req[r].origin] = req[r].origin

\* C17: a sign or get-public-key request of an origin other than the
\* Masquerade site, delivered while that origin has no stored session, fails
\* with UNAUTHORIZED at once: it returns no key or signature and leaves the
\* stored state, usage counter included, untouched.
C17_SignNeedsSession ==
    [][\A r \in Slots :
        (/\ req[r].pc = "idle"
         /\ req'[r].pc # "idle"
         /\ req'[r].method \in {"sign", "getPublicKey"}
         /\ ~isMasquerade(req'[r].origin)
         /\ getOriginData(persisted, req'[r].origin).currentSession = NoSession)
        => /\ req'[r].pc = "done"
           /\ req'[r].result = "UNAUTHORIZED"
           /\ req'[r].value = <<>>
           /\ persisted' = persisted
      ]_vars

\* C17 witness: a sign request was refused over a state that other requests
\* have persisted
C17_Witness ==
    \E r \in Slots :
        /\ req[r].pc = "done"
        /\ req[r].method = "sign"
        /\ req[r].result = "UNAUTHORIZED"
        /\ ~isMasquerade(req[r].origin)
        /\ persisted.stats > 0
        /\ getOriginData(persisted, req[r].origin).identitiesTotal > 0

\* C18: the login options returned for X are: first the group of X, then one
\* group per origin of linksFrom(X) in stored order and no other group; the
\* group of an origin S holds identitiesTotal(S) keys, the i-th derived from
\* (S, i - 1); every S listed is X or an origin with an edge S -> X.
C18_LoginOptionsComplete ==
    \A r \in Slots :
        (req[r].pc = "done" /\ req[r].method = "getLoginOptions")
        => LET x == req[r].origin
               result == req[r].value
               from == getOriginData(persisted, x).linksFrom
           IN /\ Len(result) = 1 + Len(from)
              /\ result[1][1] = x
              /\ \A j \in 1..Len(from) : result[j + 1][1] = from[j]
              /\ \A j \in 1..Len(result) :
                    LET s == result[j][1]
                        keys == result[j][2]
                    IN /\ s = x \/ linkExists(persisted, s, x)
                       /\ Len(keys) = getOriginData(persisted, s).identitiesTotal
                       /\ \A i \in 1..Len(keys) :
                             /\ keys[i].salt =
                                  entropySalt(s, i - 1, "identity-sign\nshared")
                             /\ keys[i].customSalt = Undefined

\* C18 witness: two identities on A and the edge A -> B: the options
\* returned for B are the group of B, empty, then the group of A with two
\* keys
C18_Witness ==
    \E r \in Slots :
        /\ req[r].pc = "done"
        /\ req[r].method = "getLoginOptions"
        /\ Len(req[r].value) = 2
        /\ req[r].value[1][2] = <<>>
        /\ req[r].value[2][1] # req[r].origin
        /\ Len(req[r].value[2][2]) = 2

\* C19: the login options returned for an origin hold at least one mask.
C19_LoginOptionsNeverEmpty ==
    \A r \in Slots :
        (req[r].pc = "done" /\ req[r].method = "getLoginOptions")
        => \E j \in 1..Len(req[r].value) : Len(req[r].value[j][2]) >= 1

\* C20: for every origin, no step lowers identitiesTotal in the stored state,
\* only the persist of an addIdentity request for that origin raises it, and
\* an origin that has a stored entry keeps one.
C20_IdentitiesNeverDecrease ==
    [][\A o \in Origins :
        LET before == getOriginData(persisted, o).identitiesTotal
            after == getOriginData(persisted', o).identitiesTotal
        IN /\ after >= before
           /\ after > before =>
                 \E r \in Slots : /\ req[r].pc = "persist"
                                  /\ req'[r].pc = "done"
                                  /\ req[r].method = "add"
                                  /\ req[r].origin = o
           /\ o \in DOMAIN persisted.originData =>
                 o \in DOMAIN persisted'.originData
      ]_vars

\* C21: the stored session of an origin X goes away only by the persist of
\* a log out request for X or of an unlink request naming X issued by the
\* session's derivation origin, and is replaced only by the persist of a
\* login for X; no other request's step removes or alters it.
C21_SessionChangesOnlyByItsRequests ==
    [][\A x \in Origins :
        LET before == getOriginData(persisted, x).currentSession
            after == getOriginData(persisted', x).currentSession
        IN after # before =>
              \E r \in Slots :
                  /\ req[r].pc = "persist"
                  /\ req'[r].pc = "done"
                  /\ \/ /\ req[r].method = "login"
                        /\ req[r].origin = x
                        /\ after # NoSession
                     \/ /\ req[r].method = "logout"
                        /\ req[r].origin = x
                        /\ after = NoSession
                     \/ /\ req[r].method = "unlink"
                        /\ req[r].other = x
                        /\ before # NoSession
                        /\ before.deriviationOrigin = req[r].origin
                        /\ after = NoSession
      ]_vars

\* C22: a request writes the stored state at one step only, its last one
\* before it returns, and writes there the state it mutated; a request that
\* goes on to persist has mutated the state it loaded or incremented the
\* usage counter; and a request that succeeds without persisting is one of
\* the early returns (link already there, edge already absent, no session),
\* which leaves the stored state alone.
C22_PersistOnceAtTheEnd ==
    [][\A r \in Slots : req'[r] # req[r] =>
        LET rq == req[r]
            after == req'[r]
            loaded == IF rq.pc = "idle" THEN persisted ELSE rq.state
        IN /\ rq.pc = "persist" =>
                /\ after.pc = "done"
                /\ IF after.result = "rejected"
                   THEN persisted' = persisted
                   ELSE persisted' = rq.state
           /\ rq.pc # "persist" => persisted' = persisted
           /\ after.pc = "persist" => after.state # loaded
           /\ (after.pc = "done" /\ rq.pc # "persist" /\
               after.result \in {"true", "value"}) =>
                /\ rq.pc = "idle"
                /\ \/ /\ after.method = "link"
                      /\ linkExists(persisted, after.origin, after.other)
                   \/ /\ after.method = "unlink"
                      /\ ~linkExists(persisted, after.origin, after.other)
                   \/ /\ after.method = "logout"
                      /\ getOriginData(persisted, after.origin).currentSession
                            = NoSession
      ]_vars

\* a request for the links of an origin that has some returned them after it
\* persisted the incremented counter
C22_Witness ==
    \E r \in Slots :
        /\ req[r].pc = "done"
        /\ req[r].method = "getLinks"
        /\ req[r].value # <<>>
        /\ persisted.stats >= 2

\* the results of a request that threw
ErrorResults == {"UNAUTHORIZED", "INVALID_INPUT", "UNREACHEABLE", "rejected"}

\* C23: a request that fails (an authorization or input error, the
\* unreachable error, a rejected entropy request, a dialog the host cancels)
\* leaves the stored state as it was: the stored state changes only at the
\* step by which a request returns without an error, so a request that still
\* has a dialog or a derivation ahead of it has written nothing.
C23_FailedRequestWritesNothing ==
    [][/\ \A r \in Slots :
            (req'[r] # req[r] /\ req'[r].pc = "done" /\
             req'[r].result \in ErrorResults) => persisted' = persisted
       /\ persisted' # persisted =>
            \E r \in Slots : /\ req[r].pc = "persist"
                             /\ req'[r].pc = "done"
                             /\ req'[r].result \notin ErrorResults
      ]_vars

\* a sign request of an origin with a session failed for want of entropy
C23_Witness ==
    \E r \in Slots :
        /\ req[r].pc = "done"
        /\ req[r].method = "sign"
        /\ req[r].result = "rejected"
        /\ getOriginData(persisted, req[r].origin).currentSession # NoSession

\* C24: when a mutating handler has returned true, the mutation is in the
\* stored state: the identity is counted, the session is the one of the
\* login, the link is there, the unlinked edge is gone, the session of the
\* logged out origin is gone.
C24_VisibleOnlyOncePersisted ==
    \A r \in Slots :
        (req[r].pc = "done" /\ req[r].result = "true") =>
            LET rq == req[r]
                originData == getOriginData(persisted, rq.origin)
            IN /\ rq.method = "add" => originData.identitiesTotal >= 1
               /\ rq.method = "login" =>
                    /\ originData.currentSession # NoSession
                    /\ originData.currentSession.identityId = rq.identityId
               /\ rq.method = "link" =>
                    linkExists(persisted, rq.origin, rq.other)
               /\ rq.method = "unlink" =>
                    ~linkExists(persisted, rq.origin, rq.other)
               /\ rq.method = "logout" =>
                    originData.currentSession = NoSession

\* a link request the user confirmed has returned true
C24_Witness ==
    \E r \in Slots :
        /\ req[r].pc = "done"
        /\ req[r].method = "link"
        /\ req[r].result = "true"
        /\ <<req[r].origin, req[r].other>> \in consented
        /\ Contains(getOriginData(persisted, req[r].other).linksFrom,
                    req[r].origin)

\* C25: the guard throws PROTECTED_METHOD for a method of the protected
\* table (of any kind) called from an origin other than the Masquerade site,
\* and lets every other call pass: a protected method from the Masquerade
\* site, and a method that is not in the table from any origin.
C25_GuardMethods ==
    \A r \in Slots :
        (req[r].pc = "done" /\ req[r].method \in Methods) =>
            LET protected ==
                    \E kind \in DOMAIN SNAP_METHODS_protected :
                        Contains(SNAP_METHODS_protected[kind], req[r].method)
            IN IF protected /\ req[r].origin # MSQ_SNAP_SITE_ORIGIN
               THEN req[r].result = "PROTECTED_METHOD"
               ELSE req[r].result = Undefined

\* a protected method of the last kind of the table was turned away
C25_Witness ==
    \E r \in Slots :
        /\ req[r].pc = "done"
        /\ req[r].method = "protected.statistics.reset"
        /\ req[r].origin = "https://a"
        /\ req[r].result = "PROTECTED_METHOD"

\* C27: two calls of getSignIdentity for different (origin, identity id)
\* pairs ask for entropy under different salt strings and so give different
\* keys, and the keys listed in one answer of the login options are pairwise
\* different.
C27_KeysDifferByOriginAndId ==
    \A r \in Slots :
        /\ (req[r].pc = "done" /\ req[r].method = "getSignIdentity") =>
                LET a == req[r].value[1]
                    b == req[r].value[2]
                IN (a.origin # b.origin \/ a.identityId # b.identityId) =>
                        /\ a.key.salt # b.key.salt
                        /\ a.key # b.key
        /\ (req[r].pc = "done" /\ req[r].method = "getLoginOptions") =>
                LET result == req[r].value
                IN \A j1 \in 1..Len(result), j2 \in 1..Len(result) :
                     \A i1 \in 1..Len(result[j1][2]),
                        i2 \in 1..Len(result[j2][2]) :
                            (j1 # j2 \/ i1 # i2) =>
                                result[j1][2][i1] # result[j2][2][i2]

\* the keys of (https://a, 11) and (https://a1, 1) were derived side by side:
\* the two salts differ only by where the line break stands
C27_Witness ==
    \E r \in Slots :
        /\ req[r].pc = "done"
        /\ req[r].method = "getSignIdentity"
        /\ req[r].value[1].origin = "https://a"
        /\ req[r].value[1].identityId = 11
        /\ req[r].value[2].origin = "https://a1"
        /\ req[r].value[2].identityId = 1
        /\ req[r].value[1].key # req[r].value[2].key

\* C29: a log out request for an origin without a session returns true in
\* its first step, with no dialog and no persist; for an origin with a
\* session it opens the dialog and still holds the session; the session is
\* cleared in the request's state only by the step of the user's yes, and
\* that state is then persisted and true returned.
C29_LogoutAsksThenClears ==
    [][\A r \in Slots :
        LET rq == req[r]
            after == req'[r]
            session(state) ==
                getOriginData(state, after.origin).currentSession
        IN (after # rq /\ after.method = "logout") =>
            /\ rq.pc = "idle" =>
                /\ persisted' = persisted
                /\ IF session(persisted) = NoSession
                   THEN after.pc = "done" /\ after.result = "true"
                   ELSE after.pc = "dialog" /\ session(after.state) # NoSession
            /\ rq.pc = "dialog" =>
                /\ persisted' = persisted
                /\ \/ after.pc = "done" /\ after.result \in {"false", "rejected"}
                   \/ after.pc = "persist" /\ session(after.state) = NoSession
            /\ rq.pc = "persist" =>
                /\ after.pc = "done"
                /\ after.result = "true"
                /\ persisted' = rq.state
                /\ session(persisted') = NoSession
      ]_vars

\* a log out the user confirmed has been persisted and has returned true
C29_Witness ==
    \E r \in Slots :
        /\ req[r].pc = "done"
        /\ req[r].method = "logout"
        /\ req[r].result = "true"
        /\ getOriginData(persisted, req[r].origin).identitiesTotal >= 1
        /\ getOriginData(persisted, req[r].origin).currentSession = NoSession
        /\ persisted.stats >= 3

\* the delivery, to slot r, of an unlink request by x naming y while x wears
\* a mask of y (the session made by the login that named y), the edge y -> x
\* is stored and the edge x -> y is not
InverseUnlink(r, x, y) ==
    /\ req[r].pc = "idle"
    /\ req'[r].pc # "idle"
    /\ req'[r].method = "unlink"
    /\ req'[r].origin = x
    /\ req'[r].other = y
    /\ x # y
    /\ wearing[x] = y
    /\ getOriginData(persisted, x).currentSession # NoSession
    /\ linkExists(persisted, y, x)
    /\ ~linkExists(persisted, x, y)

\* C30 (as claimed): an unlink request issued by X naming Y, with a session
\* on X derived from Y and the edge Y -> X only, clears the session of X.
C30_InverseUnlinkCascades ==
    [][\A r \in Slots : \A x \in Origins, y \in Origins :
        (InverseUnlink(r, x, y) /\ req'[r].pc = "done") =>
            getOriginData(persisted', x).currentSession = NoSession
      ]_vars

\* C30 (amended): such a request returns true at once, with no dialog and no
\* persist, and the stored state stays as it is: X keeps its session and the
\* edge Y -> X stays.
C30_InverseUnlinkIsNoOp ==
    [][\A r \in Slots : \A x \in Origins, y \in Origins :
        InverseUnlink(r, x, y) =>
            /\ req'[r].pc = "done"
            /\ req'[r].result = "true"
            /\ persisted' = persisted
            /\ getOriginData(persisted', x).currentSession # NoSession
            /\ linkExists(persisted', y, x)
      ]_vars

\* the inverse unlink request has returned: X is still logged in with the
\* mask of Y and the edge Y -> X is still there
C30_Witness ==
    \E r \in Slots :
        /\ req[r].pc = "done"
        /\ req[r].method = "unlink"
        /\ req[r].result = "true"
        /\ req[r].origin # req[r].other
        /\ wearing[req[r].origin] = req[r].other
        /\ getOriginData(persisted, req[r].origin).currentSession # NoSession
        /\ linkExists(persisted, req[r].other, req[r].origin)
        /\ <<req[r].origin, req[r].other>> \notin consented

\* what an unlink by o naming w may change between two states: the edge
\* o -> w goes, and a session of w derived from o may go
UnlinkFrame(before, next, o, w) ==
    /\ ~linkExists(next, o, w)
    /\ \A x \in Origins :
        LET old == getOriginData(before, x)
            new == getOriginData(next, x)
        IN /\ new.identitiesTotal = old.identitiesTotal
           /\ new.linksTo = IF x = o THEN Without(old.linksTo, w)
                            ELSE old.linksTo
           /\ new.linksFrom = IF x = w THEN Without(old.linksFrom, o)
                              ELSE old.linksFrom
           /\ (x # w \/ old.currentSession = NoSession
                     \/ old.currentSession.deriviationOrigin # o)
                 => new.currentSession = old.currentSession

\* C31: the user's yes to an unlink request by O naming W changes, in the
\* state the request goes on to persist, the edge O -> W only: the edge
\* W -> O, every other edge, every identity count, the session of O and a
\* session of W not derived from O stay; and, no request overlapping, so
\* does the stored state when the request persists.
C31_UnlinkRemovesOnlyItsEdge ==
    [][\A r \in Slots :
        /\ (req[r].pc = "dialog" /\ req[r].method = "unlink" /\
            req'[r].pc = "persist") =>
                UnlinkFrame(req[r].state, req'[r].state,
                            req[r].origin, req[r].other)
        /\ (req[r].pc = "persist" /\ req[r].method = "unlink" /\
            req'[r].pc = "done" /\ overlaps = 0) =>
                UnlinkFrame(persisted, persisted',
                            req[r].origin, req[r].other)
      ]_vars

\* a confirmed unlink by O naming W has returned and W is still logged in
C31_Witness ==
    \E r \in Slots :
        /\ req[r].pc = "done"
        /\ req[r].method = "unlink"
        /\ req[r].result = "true"
        /\ <<req[r].origin, req[r].other>> \in consented
        /\ ~linkExists(persisted, req[r].origin, req[r].other)
        /\ getOriginData(persisted, req[r].other).currentSession # NoSession

\* C32: a sign or get public key request by X, logged in with the mask k of
\* the derivation origin Y (the session made by the login that named Y),
\* derives its key from (Y, k) and the request's salt, so not from X when
\* Y # X; both requests derive the same key from the same state and salt.
\* Stated for runs without overlapping requests.
C32_SignUsesDerivationOrigin ==
    [][\A r \in Slots :
        LET x == req'[r].origin
            session == getOriginData(persisted, x).currentSession
        IN (/\ req[r].pc = "idle"
            /\ req'[r].pc = "persist"
            /\ req'[r].method \in {"sign", "getPublicKey"}
            /\ overlaps = 0
            /\ session # NoSession
            /\ wearing[x] # Undefined)
           => \A salt \in Salts :
                req'[r].value[1].customSalt = salt =>
                    req'[r].value[1] =
                        getSignIdentity(wearing[x], session.identityId, salt)
      ]_vars

AddFrame(before, next, x) ==
    \A o \in Origins :
        LET old == getOriginData(before, o)
            new == getOriginData(next, o)
        IN /\ new.identitiesTotal =
                old.identitiesTotal + (IF o = x THEN 1 ELSE 0)
           /\ new.linksTo = old.linksTo
           /\ new.linksFrom = old.linksFrom
           /\ new.currentSession = old.currentSession

\* C34: an addIdentity request for X goes straight on to persist, whatever
\* the sessions and without a dialog; the state it persists has one identity
\* more on X than the state it loaded and the same link lists and sessions,
\* and the same counts for the other origins; and, no request overlapping,
\* so has the stored state after its persist.
C34_AddIdentityChangesOnlyTheCount ==
    [][\A r \in Slots :
        /\ (req[r].pc = "idle" /\ req'[r].pc # "idle" /\
            req'[r].method = "add") =>
                /\ req'[r].pc = "persist"
                /\ AddFrame(persisted, req'[r].state, req'[r].origin)
        /\ (req[r].pc = "persist" /\ req[r].method = "add" /\
            req'[r].pc = "done" /\ overlaps = 0) =>
                /\ req'[r].result = "true"
                /\ AddFrame(persisted, persisted', req[r].origin)
      ]_vars

\* a second identity was added to an origin that is logged in
C34_Witness ==
    \E r \in Slots :
        /\ req[r].pc = "done"
        /\ req[r].method = "add"
        /\ req[r].result = "true"
        /\ getOriginData(persisted, req[r].origin).identitiesTotal = 2
        /\ getOriginData(persisted, req[r].origin).currentSession # NoSession

\* what a login for x with the identity id changes between two states: the
\* session of x, which is a session of that identity whatever it was
LoginFrame(before, next, x, identityId) ==
    \A o \in Origins :
        LET old == getOriginData(before, o)
            new == getOriginData(next, o)
        IN /\ new.identitiesTotal = old.identitiesTotal
           /\ new.linksTo = old.linksTo
           /\ new.linksFrom = old.linksFrom
           /\ IF o = x
              THEN /\ new.currentSession # NoSession
                   /\ new.currentSession.identityId = identityId
                   /\ new.currentSession.timestampMs \in Timestamps
              ELSE new.currentSession = old.currentSession

\* C35: the state a login for X goes on to persist differs from the state it
\* loaded by the session of X only, which is the session of the login
\* whether or not X had one; the link lists, the identity counts and the
\* sessions of the other origins are the same; and, no request overlapping,
\* so is the stored state after its persist.
C35_LoginChangesOnlyTheSession ==
    [][\A r \in Slots :
        /\ (req[r].pc = "idle" /\ req'[r].pc = "persist" /\
            req'[r].method = "login") =>
                LoginFrame(persisted, req'[r].state, req'[r].origin,
                           req'[r].identityId)
        /\ (req[r].pc = "persist" /\ req[r].method = "login" /\
            req'[r].pc = "done" /\ overlaps = 0) =>
                /\ req'[r].result = "true"
                /\ LoginFrame(persisted, persisted', req[r].origin,
                              req[r].identityId)
      ]_vars

\* a login with the second mask of an origin has returned, fourth of the
\* requests served, all of them for that origin
C35_Witness ==
    \E r \in Slots :
        /\ req[r].pc = "done"
        /\ req[r].method = "login"
        /\ req[r].result = "true"
        /\ req[r].identityId = 1
        /\ getOriginData(persisted, req[r].origin).currentSession.identityId = 1
        /\ persisted.stats = 4
        /\ \A o \in Origins :
              /\ getOriginData(persisted, o).identitiesTotal =
                    IF o = req[r].origin THEN 2 ELSE 0
        /\ overlaps = 0

QueryMethods ==
    {"sessionExists", "getLinks", "getLoginOptions", "showTransferConfirm"}

\* what a query changes between two states: nothing but the usage counter
QueryFrame(before, next) ==
    \A o \in Origins :
        LET old == getOriginData(before, o)
            new == getOriginData(next, o)
        IN /\ new.identitiesTotal = old.identitiesTotal
           /\ new.linksTo = old.linksTo
           /\ new.linksFrom = old.linksFrom
           /\ new.currentSession = old.currentSession

\* C36: the state a query (session exists, links, login options, transfer
\* confirmation) goes on to persist holds, for every origin, seen before or
\* not, the identity count, link lists and session of the state it loaded;
\* no request overlapping, so does the stored state after its persist; and
\* the links query for O answers with the origins W that have the edge
\* O -> W, each once.
C36_QueriesChangeOnlyTheCounter ==
    [][\A r \in Slots :
        /\ (req[r].pc # "persist" /\ req'[r].pc = "persist" /\
            req'[r].method \in QueryMethods) =>
                QueryFrame(persisted, req'[r].state)
        /\ (req[r].pc = "persist" /\ req'[r].pc = "done" /\
            req[r].method \in QueryMethods /\ overlaps = 0) =>
                QueryFrame(persisted, persisted')
        /\ (req[r].pc = "idle" /\ req'[r].method = "getLinks") =>
                LET o == req'[r].origin
                    links == req'[r].value
                IN /\ \A w \in Origins :
                        Contains(links, w) <=> linkExists(persisted, o, w)
                   /\ \A i \in 1..Len(links), j \in 1..Len(links) :
                        links[i] = links[j] => i = j
        /\ (req[r].pc = "persist" /\ req'[r].pc = "done" /\
            req[r].method = "getLinks") =>
                req'[r].value = req[r].value
      ]_vars

\* the links of an origin that granted its masks and was granted none have
\* been returned
C36_Witness ==
    \E r \in Slots :
        /\ req[r].pc = "done"
        /\ req[r].method = "getLinks"
        /\ req[r].value # <<>>
        /\ getOriginData(persisted, req[r].origin).linksFrom = <<>>
        /\ getOriginData(persisted, req[r].origin).linksTo = req[r].value

\* C37: on the login page, picking the mask at position i of the group of
\* origin S sends a login for the referrer with identity index i and
\* derivation origin S, and the session that login records is the session of
\* the picked mask: the key derived from the recorded derivation origin and
\* identity index is the key the page listed at that position, the key of
\* (S, i).
C37_PickedMaskIsSessionMask ==
    [][\A r \in Slots :
        LET x == req[r].origin
            session == getOriginData(persisted', x).currentSession
        IN /\ (/\ req[r].pc = "idle"
               /\ req'[r].method = "login"
               /\ req'[r].pc = "persist")
              => \E j \in 1..Len(loginOptions(req'[r].origin)) :
                    /\ loginOptions(req'[r].origin)[j][1] = req'[r].other
                    /\ req'[r].identityId + 1 \in
                          DOMAIN loginOptions(req'[r].origin)[j][2]
                    /\ loginOptions(req'[r].origin)[j][2]
                                   [req'[r].identityId + 1] =
                          getSignIdentity(req'[r].other, req'[r].identityId,
                                          Undefined)
           /\ (/\ req[r].pc = "persist"
               /\ req[r].method = "login"
               /\ req'[r].pc = "done"
               /\ overlaps = 0)
              => /\ session # NoSession
                 /\ getSignIdentity(session.deriviationOrigin,
                                    session.identityId, Undefined) =
                        getSignIdentity(req[r].other, req[r].identityId,
                                        Undefined)
      ]_vars

=============================================================================
